---- MODULE Spec2Model ----
(***************************************************************************)
(* Model of readwise-to-remarkable: the two paced, retrying HTTP clients   *)
(* (ReadwiseAPI._make_request, RateLimitedImageFetcher.fetch_image), the   *)
(* image loop of DocumentConverter.html_to_epub, and the sync run with its *)
(* export ledger (ExportTracker).  Six specifications: Spec (runs of sync   *)
(* on one ledger file), PaceSpec (one paced client), QuotaSpec (one        *)
(* ReadwiseAPI instance over a minute), ListSpec (get_documents on its     *)
(* own), ExtSpec (_determine_image_extension on its own), TrackerSpec      *)
(* (ExportTracker on its own).                                             *)
(*                                                                         *)
(* Times are integers counting tenths of a second, so that the 3.1 s       *)
(* interval of the API client is the integer 31.  A request is taken to    *)
(* start at the instant _rate_limit stores last_request_time (the two      *)
(* statements are adjacent in the code).                                   *)
(***************************************************************************)
EXTENDS Integers, Sequences, FiniteSets, TLC

Tenths(seconds) == seconds * 10

(* ---------------- program constants ---------------- *)
ApiMinInterval == 31
ImgMinInterval == 10
ApiMaxRetries == 5
ImgMaxRetries == 3
ApiBaseDelay == 2
ImgBaseDelay == 2

(* ---------------- bounds of the model ---------------- *)
StartTime == 100
MaxCalls == 2
MaxImages == 2
LongRequest == 40
LongGap == 35
ReqDurations == {0, LongRequest}
CallGaps == {0, LongGap}
Clients == {"api", "img"}

\* Retry-After header values a server may send (strings, as characters)
RetryAfterHeaders == { <<"0", "3">>, <<"-", "1">>, <<"W", "e", "d">> }

(* ---------------- int() of a header string ---------------- *)
DigitChars == <<"0", "1", "2", "3", "4", "5", "6", "7", "8", "9">>

IsDigit(c) == \E i \in 1..Len(DigitChars) : DigitChars[i] = c

DigitVal(c) == (CHOOSE i \in 1..Len(DigitChars) : DigitChars[i] = c) - 1

IntBody(s) == IF s # <<>> /\ Head(s) \in {"-", "+"} THEN Tail(s) ELSE s

\* int(str) succeeds: optional sign, then at least one digit, digits only
IntOk(s) == /\ IntBody(s) # <<>>
            /\ \A i \in 1..Len(IntBody(s)) : IsDigit(IntBody(s)[i])

RECURSIVE NatVal(_)
NatVal(s) == IF s = <<>> THEN 0
             ELSE 10 * NatVal(SubSeq(s, 1, Len(s) - 1)) + DigitVal(s[Len(s)])

IntVal(s) == IF s # <<>> /\ Head(s) = "-" THEN 0 - NatVal(IntBody(s))
             ELSE NatVal(IntBody(s))

(* ---------------- per-client parameters ---------------- *)
\* variant: 2.9 s between the requests of the API client
MinIntervalShort(c) == IF c = "api" THEN ApiMinInterval - 2 ELSE ImgMinInterval

MinInterval(c) == IF c = "api" THEN ApiMinInterval ELSE ImgMinInterval

\* variant: one attempt too many
MaxRetriesOneMore(c) == IF c = "api" THEN ApiMaxRetries + 1 ELSE ImgMaxRetries + 1

MaxRetries(c) == IF c = "api" THEN ApiMaxRetries ELSE ImgMaxRetries

BaseDelay(c) == IF c = "api" THEN ApiBaseDelay ELSE ImgBaseDelay

(* ---------------- responses ---------------- *)
NoResp == [kind |-> "none", hasRA |-> FALSE, ra |-> <<>>, at |-> 0]

\* what one request can be answered with; "err" is any RequestException:
\* timeout, connection failure, or a non-2xx status via raise_for_status
Answers(c) ==
    {[kind |-> "ok", hasRA |-> FALSE, ra |-> <<>>],
     [kind |-> "err", hasRA |-> FALSE, ra |-> <<>>],
     [kind |-> "429", hasRA |-> FALSE, ra |-> <<>>]}
    \cup {[kind |-> "429", hasRA |-> TRUE, ra |-> h] : h \in RetryAfterHeaders}
    \cup (IF c = "img" THEN {[kind |-> "403", hasRA |-> FALSE, ra |-> <<>>]} ELSE {})

\* body of a 200 image response: b"" or some bytes
Contents == {"empty", "bytes"}

ImgLists == UNION {[1..n -> {"http", "rel"}] : n \in 0..MaxImages}

VARIABLES
    client,             \* which paced client this behaviour follows
    now,                \* time.time()
    last_request_time,  \* the instance field
    pc,                 \* position inside _make_request / fetch_image
    attempt,            \* loop variable of "for attempt in range(max_retries)"
    result,             \* how the call ended
    resp,               \* last response received in this call
    nreq, nerr, n429,   \* requests / transport errors / 429s of this call
    starts,             \* start times of the previous and the last request
    win,                \* requests started within a minute of a marked one
    t_resp,             \* time the last response arrived
    slept,              \* duration handed to time.sleep after the last response
    calls,              \* calls made through the instance, up to MaxCalls
    imgs, imgIdx, img_counter, epub,  \* html_to_epub: the image loop
    srcs                \* html_to_epub: the src of each image handled so far

\* the minute watched: none, or the one that begins with the first request
\* of the instance, with the count of the requests started in it
NotWatched == [on |-> FALSE, start |-> -1, count |-> 0]
NotBegun == [on |-> TRUE, start |-> -1, count |-> 0]
Window == Tenths(60)
Windowed(w, t) ==
    IF ~w.on THEN w
    ELSE IF w.start < 0
         THEN [on |-> TRUE, start |-> t, count |-> 1]
         ELSE IF t <= w.start + Window
              THEN [w EXCEPT !.count = @ + 1]
              ELSE w

paceVars == <<client, now, last_request_time, pc, attempt, result, resp,
              nreq, nerr, n429, starts, win, t_resp, slept, calls,
              imgs, imgIdx, img_counter, epub, srcs>>

(* ======================= the ledger file (tracker.py) =================== *)
\* document ids and titles are strings, modelled as sequences of characters
DocIds == { <<"a">>, <<"b">> }
TitleOf(id) == <<"T">> \o id
Timestamp == <<"9">>

WhiteSpace == {" ", "\n", "\t"}

\* entry = f"{timestamp} - {title} ({doc_id})\n"
Entry(ts, title, doc_id) ==
    ts \o <<" ", "-", " ">> \o title \o <<" ", "(">> \o doc_id \o <<")", "\n">>

\* "for line in f": a line ends at each "\n" and at the end of the text
LineEnds(text) == {k \in 1..Len(text) : text[k] = "\n" \/ k = Len(text)}

NumLines(text) == Cardinality(LineEnds(text))

\* line.strip()
RECURSIVE Strip(_)
Strip(line) ==
    IF line = <<>> THEN <<>>
    ELSE IF Head(line) \in WhiteSpace THEN Strip(Tail(line))
    ELSE IF line[Len(line)] \in WhiteSpace THEN Strip(SubSeq(line, 1, Len(line) - 1))
    ELSE line

\* positions where re.search(r"\(([^)]+)\)$", line) can match
MatchStarts(line) ==
    {k \in 1..Len(line) :
        /\ line[k] = "("
        /\ line[Len(line)] = ")"
        /\ k + 1 <= Len(line) - 1
        /\ \A j \in (k + 1)..(Len(line) - 1) : line[j] # ")"}

\* variant: a line that starts with "#" is read like any other
LineIdsOfComments(rawline) ==
    LET line == Strip(rawline)
        found == MatchStarts(line)
    IN IF line # <<>> /\ found # {}
       THEN LET k == CHOOSE k \in found : \A m \in found : k <= m
            IN {SubSeq(line, k + 1, Len(line) - 1)}
       ELSE {}

\* the ids one line contributes to the set: none, or match.group(1) of the
\* leftmost match
LineIds(rawline) ==
    LET line == Strip(rawline)
        found == MatchStarts(line)
    IN IF line # <<>> /\ Head(line) # "#" /\ found # {}
       THEN LET k == CHOOSE k \in found : \A m \in found : k <= m
            IN {SubSeq(line, k + 1, Len(line) - 1)}
       ELSE {}

\* the line that ends at position e, its "\n" included; ends are the
\* line ends of the text
LineOf(text, ends, e) ==
    LET before == {k \in ends : k < e}
        start == IF before = {} THEN 1
                 ELSE 1 + CHOOSE m \in before : \A k \in before : k <= m
    IN SubSeq(text, start, e)

\* the set load_exported_docs builds from the first n lines of the file
LoadedIds(text, n) ==
    LET ends == LineEnds(text)
        read == {e \in ends : Cardinality({k \in ends : k <= e}) <= n}
    IN UNION {LineIds(LineOf(text, ends, e)) : e \in read}

\* the lines of the file (by the position of their end) that are records
\* of doc_id
RecordLines(text, doc_id) ==
    LET ends == LineEnds(text)
    IN {e \in ends : doc_id \in LineIds(LineOf(text, ends, e))}

\* ids that have a record line in the file
RecordIds(text) == LoadedIds(text, NumLines(text))

(* ======================= the sync run (sync.py) ========================= *)
MaxRuns == 2
MaxListed == 2

\* the fields of a document dict that _process_document branches on: the
\* category, and whether the field it needs (source_url of a pdf,
\* html_content otherwise) is there; they are drawn when they are read
Shapes == [category : {"article", "pdf"}, complete : BOOLEAN]

\* config.py defaults: the locations listed, in order, and the tag
Locations == <<"new", "later", "shortlist">>
Tag == "remarkable"

\* pages requested of one location, at most
MaxPages == 2

\* the "tags" field of a listed document: a JSON object whose keys are the
\* tag names, or a list of names, or no field, or anything else (null, ...)
TagNames == {Tag, "other"}
TagShapes == [form : {"dict", "list", "missing", "other"}, names : SUBSET TagNames]

\* variant: the names are looked at whatever the shape of the field
HasTagAnyShape(doc_tags, tag) == tag \in doc_tags.names

\* the tag filter of get_documents: "if tag in tag_list"
HasTag(doc_tags, tag) ==
    LET tag_list == IF doc_tags.form \in {"dict", "list"}
                    THEN doc_tags.names
                    ELSE {}
    IN tag \in tag_list

\* the tags the listed documents of a run come with
ListedTags == {[form |-> "dict", names |-> {Tag}],
               [form |-> "list", names |-> {"other"}]}

\* the documents a page can hold, and the pages of up to n documents
PageDocs == [id : DocIds, tags : ListedTags]
ShapedDocs == [id : {<<"a">>}, tags : TagShapes]
Pages(n) == UNION {[1..k -> PageDocs] : k \in 0..n}

\* nextPageCursor of a response: absent (or null), or a string, "" included
NoCursor == [given |-> FALSE, val |-> ""]
Cursors == {NoCursor} \cup [given : {TRUE}, val : {"", "c1", "c2"}]

\* variant: any cursor that is there counts, the empty string included
TruthyGiven(c) == c.given

\* get_documents is followed on its own (no run of sync started: r = 0)
\* with every page and every cursor; inside the runs of sync the pages hold
\* up to MaxSyncPage documents and the cursor is absent or "c1"
MaxSyncPage == 1
MaxPage == 2
ListedPages(r, room) ==
    IF r = 0
    THEN Pages(IF room < MaxPage THEN room ELSE MaxPage)
         \cup {<<d>> : d \in {x \in ShapedDocs : room > 0}}
    ELSE Pages(IF room < MaxSyncPage THEN room ELSE MaxSyncPage)

\* the page received is recorded where get_documents is followed on its own
Observed(r, page) == IF r = 0 THEN page ELSE <<>>

\* documents collected by one call at most: on its own, and in a run of sync
MaxCollected == 3
Room(r, collected) ==
    (IF r = 0 THEN MaxCollected ELSE MaxListed) - Len(collected)
ListedCursors(r, last) ==
    LET all == IF r = 0 THEN Cursors
               ELSE {NoCursor, [given |-> TRUE, val |-> "c1"]}
    IN IF last THEN {c \in all : c.val = ""} ELSE all

\* "if page_cursor:" / "if not page_cursor:"
Truthy(c) == c.given /\ c.val # ""

\* the listing request of one iteration: pageCursor is a parameter only
\* when page_cursor is truthy
Request(loc, page, page_cursor) ==
    [location |-> loc, page |-> page,
     pageCursor |-> IF Truthy(page_cursor) THEN page_cursor ELSE NoCursor]

NoRequest == [location |-> 0, page |-> 0, pageCursor |-> NoCursor]

ZeroCount == [d \in DocIds |-> 0]

\* successes are counted up to CountCap ("CountCap or more")
CountCap == 2
Count(n) == IF n < CountCap THEN n + 1 ELSE n

VARIABLES
    file,            \* text of exported_documents.txt
    exported_docs,   \* ExportTracker.exported_docs
    spc,             \* position of the process inside a run; "off" between runs
    documents,       \* result of get_documents
    new_documents,   \* the documents left by the ledger filter
    idx,             \* position of the processing loop in new_documents
    docStatus,       \* what has happened to the document being processed
    runOutcome,      \* how sync() is ending
    runs,            \* runs started
    cleanups,        \* calls of _cleanup_temp_files in this run
    cleanupErr,      \* _cleanup_temp_files of this run caught an exception
    uploads,         \* successful uploads per id, over all runs
    runUploads,      \* successful uploads per id, in this run
    touched,         \* ids converted or handed to the uploader in this run
    startRecs,       \* ids with a record in the file when the run started
    startLoaded,     \* exported_docs right after load_exported_docs
    location,        \* get_documents: index in Locations of the location listed
    page_cursor,     \* get_documents: page_cursor
    all_documents,   \* get_documents: all_documents
    pageNo,          \* pages requested of the current location
    lastReq,         \* the listing request sent last
    lastNext,        \* nextPageCursor of the response received last
    lastPage,        \* "results" of the response received last
    listing,         \* "none", or how get_documents ended: "ok", "failed"
    loadErr,         \* how load_exported_docs went: "none", "open", "read"
    category,        \* _process_document: category of the document, "none" outside
    failed,          \* ids whose latest processing, in any run, ended in a failure
    processed,       \* ids passed to _process_document in this run, in order
    tpc,             \* the tracker followed on its own: its position
    marked,          \* the tracker followed on its own: ids given to mark_exported
    expected         \* the tracker followed on its own: the ids the lines of
                     \* the file it started with stand for

(* ---------------- converter.py: _determine_image_extension ------------- *)
\* bytes and characters are one-element strings; "x89" stands for the byte
\* 0x89, "xff" for 0xff, "xd8" for 0xd8
PngSig == <<"x89", "P", "N", "G">>
JpegSig == <<"xff", "xd8", "xff">>
GifSig == <<"G", "I", "F">>
RiffSig == <<"R", "I", "F", "F">>
WebpTag == <<"W", "E", "B", "P">>
SvgTag == <<"<", "s", "v", "g">>

\* "content[:12]" and "content[:100]"
WebpWindow == 12
SvgWindow == 100

\* bytes.startswith(prefix)
StartsWith(s, prefix) ==
    Len(s) >= Len(prefix) /\ SubSeq(s, 1, Len(prefix)) = prefix

\* "needle in s"
Contains(s, needle) ==
    \E i \in 1..(Len(s) - Len(needle) + 1) :
        SubSeq(s, i, i + Len(needle) - 1) = needle

\* "s[:n]"
Slice(s, n) == SubSeq(s, 1, IF Len(s) < n THEN Len(s) ELSE n)

\* str.split(".")[-1]: what follows the last "."
AfterLastDot(s) ==
    LET dots == {i \in 1..Len(s) : s[i] = "."}
        last == CHOOSE i \in dots : \A j \in dots : j <= i
    IN IF dots = {} THEN s ELSE SubSeq(s, last + 1, Len(s))

\* str.split("?")[0]: what precedes the first "?"
BeforeFirstQuestionMark(s) ==
    LET marks == {i \in 1..Len(s) : s[i] = "?"}
        first == CHOOSE i \in marks : \A j \in marks : i <= j
    IN IF marks = {} THEN s ELSE SubSeq(s, 1, first - 1)

\* str.lower()
Lower(s) ==
    LET upper == <<"A", "B", "C", "D", "E", "F", "G", "H", "I", "J", "K", "L", "M",
                   "N", "O", "P", "Q", "R", "S", "T", "U", "V", "W", "X", "Y", "Z">>
        lower == <<"a", "b", "c", "d", "e", "f", "g", "h", "i", "j", "k", "l", "m",
                   "n", "o", "p", "q", "r", "s", "t", "u", "v", "w", "x", "y", "z">>
        char(c) == IF \E i \in 1..Len(upper) : upper[i] = c
                   THEN lower[CHOOSE i \in 1..Len(upper) : upper[i] = c]
                   ELSE c
    IN [i \in 1..Len(s) |-> char(s[i])]

Png == <<"p", "n", "g">>
Jpg == <<"j", "p", "g">>
Gif == <<"g", "i", "f">>
Webp == <<"w", "e", "b", "p">>
Svg == <<"s", "v", "g">>
Jpeg == <<"j", "p", "e", "g">>
Bmp == <<"b", "m", "p">>

\* ["png", "gif", "webp", "svg", "jpeg", "bmp"]
UrlExtensions == {Png, Gif, Webp, Svg, Jpeg, Bmp}

\* variant: the URL is looked at first, the bytes after it
determine_url_first(url, content) ==
    LET url_ext == Lower(BeforeFirstQuestionMark(AfterLastDot(url)))
    IN IF Contains(url, <<".">>) /\ url_ext \in UrlExtensions
       THEN IF url_ext = Jpeg THEN Jpg ELSE url_ext
       ELSE IF StartsWith(content, PngSig) THEN Png
       ELSE IF StartsWith(content, JpegSig) THEN Jpg
       ELSE IF StartsWith(content, GifSig) THEN Gif
       ELSE IF StartsWith(content, RiffSig)
               /\ Contains(Slice(content, WebpWindow), WebpTag) THEN Webp
       ELSE IF StartsWith(content, SvgTag)
               \/ Contains(Slice(content, SvgWindow), SvgTag) THEN Svg
       ELSE Jpg

\* variant: an "svg" URL extension is not in the list
determine_without_svg_url(url, content) ==
    LET url_ext == Lower(BeforeFirstQuestionMark(AfterLastDot(url)))
    IN IF StartsWith(content, PngSig) THEN Png
       ELSE IF StartsWith(content, JpegSig) THEN Jpg
       ELSE IF StartsWith(content, GifSig) THEN Gif
       ELSE IF StartsWith(content, RiffSig)
               /\ Contains(Slice(content, WebpWindow), WebpTag) THEN Webp
       ELSE IF StartsWith(content, SvgTag)
               \/ Contains(Slice(content, SvgWindow), SvgTag) THEN Svg
       ELSE IF Contains(url, <<".">>) /\ url_ext \in (UrlExtensions \ {Svg})
       THEN IF url_ext = Jpeg THEN Jpg ELSE url_ext
       ELSE Jpg

\* _determine_image_extension(url, content)
determine_image_extension(url, content) ==
    LET url_ext == Lower(BeforeFirstQuestionMark(AfterLastDot(url)))
    IN IF StartsWith(content, PngSig) THEN Png
       ELSE IF StartsWith(content, JpegSig) THEN Jpg
       ELSE IF StartsWith(content, GifSig) THEN Gif
       ELSE IF StartsWith(content, RiffSig)
               /\ Contains(Slice(content, WebpWindow), WebpTag) THEN Webp
       ELSE IF StartsWith(content, SvgTag)
               \/ Contains(Slice(content, SvgWindow), SvgTag) THEN Svg
       ELSE IF Contains(url, <<".">>) /\ url_ext \in UrlExtensions
       THEN IF url_ext = Jpeg THEN Jpg ELSE url_ext
       ELSE Jpg

\* the pieces image bodies are put together from: the signatures, a cut
\* signature, four and ninety-six bytes of something else
Other4 == <<"o", "o", "o", "o">>
Other96 == [i \in 1..96 |-> "o"]
Pieces == {PngSig, JpegSig, GifSig, RiffSig, WebpTag, SvgTag,
           <<"x89", "P", "N">>, Other4, Other96}

\* pieces of a body, at most
MaxPieces == 3

RECURSIVE Flatten(_)
Flatten(ps) == IF ps = <<>> THEN <<>> ELSE Head(ps) \o Flatten(Tail(ps))

\* bodies fetch_image can hand over (never b"": "if content:")
Bodies == {Flatten(ps) : ps \in UNION {[1..n -> Pieces] : n \in 1..MaxPieces}}

\* image URLs: src starts with http:// or https://
Urls ==
    LET stem == <<"h", "t", "t", "p", ":", "/", "/", "e", ".", "o", "/", "i">>
        tails == {<<>>,
                  <<".", "p", "n", "g">>,
                  <<".", "P", "N", "G">>,
                  <<".", "p", "n", "g", "?", "w", "=", "1">>,
                  <<".", "p", "n", "g", "?", "v", "=", "1", ".", "2">>,
                  <<".", "g", "i", "f">>,
                  <<".", "w", "e", "b", "p">>,
                  <<".", "s", "v", "g">>,
                  <<".", "j", "p", "e", "g">>,
                  <<".", "j", "p", "g">>,
                  <<".", "b", "m", "p">>,
                  <<".", "t", "i", "f", "f">>}
    IN {stem \o t : t \in tails}
       \cup {<<"h", "t", "t", "p", ":", "/", "/", "e", "/", "i">>}

NoImage == [url |-> <<>>, content |-> <<>>]

VARIABLES
    image,           \* the extension classifier followed on its own: its arguments
    ext              \* the extension classifier followed on its own: its result

convVars == <<image, ext>>

listVars == <<location, page_cursor, all_documents, pageNo, lastReq, lastNext, lastPage,
              listing>>
trackerVars == <<tpc, marked, expected>>

syncVars == <<file, exported_docs, spc, documents, new_documents, idx, category,
              docStatus,
              runOutcome, runs, cleanups, cleanupErr, uploads, runUploads, touched,
              startRecs, startLoaded, listVars, loadErr, failed, processed,
              trackerVars, convVars>>

vars == <<paceVars, syncVars>>

\* what no step of sync() changes
outsideVars == <<paceVars, trackerVars, convVars>>

callVars == <<attempt, result, resp, nreq, nerr, n429, t_resp, slept>>
epubVars == <<imgs, imgIdx, img_counter, epub, srcs>>

\* the src of an image: the one it came with, or the local name
\* f"img_{n}.{ext}" of the item added to the book with uid f"image{n}"
Untouched == [local |-> FALSE, n |-> 0]
Embedded(n) == [local |-> TRUE, n |-> n]

PaceInit ==
    /\ client \in Clients
    /\ now = StartTime
    /\ last_request_time = 0
    /\ pc = "idle"
    /\ attempt = 0
    /\ result = "none"
    /\ resp = NoResp
    /\ nreq = 0 /\ nerr = 0 /\ n429 = 0
    /\ starts = <<-1, -1>>
    /\ win = NotWatched
    /\ t_resp = 0
    /\ slept = 0
    /\ calls = 0
    /\ imgs \in (IF client = "img" THEN ImgLists ELSE {<<>>})
    /\ imgIdx = 1
    /\ img_counter = 0
    /\ srcs = <<>>
    /\ epub = IF client = "img" THEN "running" ELSE "none"

\* entry of _make_request / fetch_image: the locals of a fresh call
StartCall ==
    /\ pc' = "rate_limit"
    /\ attempt' = 0
    /\ result' = "none"
    /\ resp' = NoResp
    /\ nreq' = 0 /\ nerr' = 0 /\ n429' = 0
    /\ t_resp' = now'
    /\ slept' = 0
    /\ calls' = IF calls < MaxCalls THEN calls + 1 ELSE calls

\* a caller (get_documents, get_document_content) calls _make_request
ApiCall ==
    /\ client = "api"
    /\ pc \in {"idle", "done"}
    /\ calls < MaxCalls
    /\ \E gap \in CallGaps : now' = now + gap
    /\ StartCall
    /\ UNCHANGED <<client, last_request_time, starts, win, epubVars, syncVars>>

\* variant: _rate_limit never sleeps
SleepTimeNone(current_time, last, min_interval) == 0

\* _rate_limit: how long it sleeps
SleepTime(current_time, last, min_interval) ==
    LET time_since_last == current_time - last
    IN IF time_since_last < min_interval
       THEN min_interval - time_since_last
       ELSE 0

\* top of the loop body: self._rate_limit(), then the request is issued
RateLimit ==
    /\ pc = "rate_limit"
    /\ now' = now + SleepTime(now, last_request_time, MinInterval(client))
    /\ last_request_time' = now'
    /\ starts' = <<starts[2], now'>>
    /\ win' = Windowed(win, now')
    /\ nreq' = nreq + 1
    /\ pc' = "request"
    /\ UNCHANGED <<client, attempt, result, resp, nerr, n429, t_resp, slept,
                   calls, epubVars, syncVars>>


(* ---------------- handling of one response ---------------- *)
\* "for attempt in range(max_retries)": is there an iteration with index a
InRange(c, a) == a < MaxRetries(c)

\* variant: the except clause compares with max_retries
IsLastAttemptNever(c, a) == a = MaxRetries(c)

\* "if attempt == max_retries - 1" of the except clause
IsLastAttempt(c, a) == a = MaxRetries(c) - 1

\* variant: the delay grows by base_delay with each attempt
BackoffLinear(c, a) == BaseDelay(c) * (a + 1)

\* delay = base_delay * (2**attempt)
Backoff(c, a) == BaseDelay(c) * (2 ^ a)

\* int(response.headers.get("Retry-After", ...)) and time.sleep(retry_after)
\* both succeed: the header is absent, or an integer that is not negative
RetryAfterOk(r) == ~r.hasRA \/ (IntOk(r.ra) /\ IntVal(r.ra) >= 0)

\* variant: the header is not read
RetryAfterIgnoresHeader(c, a, r) == BaseDelay(c) * (2 ^ a)

\* retry_after = int(response.headers.get("Retry-After", base_delay * (2**attempt)))
RetryAfter(c, a, r) == IF r.hasRA THEN IntVal(r.ra) ELSE BaseDelay(c) * (2 ^ a)

\* variant: a 429 repeats the same attempt index
AfterRateLimitedSame(a) == a

\* "continue" after a 429: the for loop moves to the next index
AfterRateLimited(a) == a + 1

\* what the statement after the loop does
LoopExitResult(c) == IF c = "api" THEN "raise_max" ELSE "None"

\* what the except clause does on the last attempt
ExhaustedResult(c) == IF c = "api" THEN "raise_last" ELSE "None"

Received(a) == [kind |-> a.kind, hasRA |-> a.hasRA, ra |-> a.ra, at |-> attempt]

\* status 429: sleep Retry-After (or the backoff), then continue
On429 ==
    /\ pc = "request"
    /\ \E dur \in ReqDurations, a \in {x \in Answers(client) : x.kind = "429"} :
        LET r == Received(a)
            t == now + dur
        IN /\ resp' = r
           /\ t_resp' = t
           /\ n429' = n429 + 1
           /\ IF RetryAfterOk(r)
              THEN /\ slept' = Tenths(RetryAfter(client, attempt, r))
                   /\ now' = t + slept'
                   /\ attempt' = AfterRateLimited(attempt)
                   /\ IF InRange(client, attempt')
                      THEN pc' = "rate_limit" /\ result' = result
                      ELSE pc' = "done" /\ result' = LoopExitResult(client)
              ELSE \* ValueError from int() or from time.sleep: not a
                   \* RequestException, so it leaves the function
                   /\ slept' = 0
                   /\ now' = t
                   /\ attempt' = attempt
                   /\ pc' = "done"
                   /\ result' = "ValueError"
    /\ UNCHANGED <<client, last_request_time, nreq, nerr, starts, win, calls, epubVars, syncVars>>

\* variant: no branch for 403, raise_for_status turns it into an error
OnForbiddenRetried(c) == "error"

\* "if response.status_code == 403: ... return None"
OnForbidden(c) == "return_none"

\* status 403 in fetch_image: return None
On403 ==
    /\ pc = "request"
    /\ client = "img"
    /\ resp' = Received([kind |-> "403", hasRA |-> FALSE, ra |-> <<>>])
    /\ \E dur \in ReqDurations :
        LET t == now + dur
        IN /\ t_resp' = t
           /\ IF OnForbidden(client) = "return_none" \/ IsLastAttempt(client, attempt)
              THEN /\ slept' = 0
                   /\ now' = t
                   /\ attempt' = attempt
                   /\ pc' = "done"
                   /\ result' = "None"
              ELSE /\ slept' = Tenths(Backoff(client, attempt))
                   /\ now' = t + slept'
                   /\ attempt' = attempt + 1
                   /\ pc' = "rate_limit"
                   /\ result' = result
    /\ UNCHANGED <<client, last_request_time, nreq, nerr, n429, starts, win,
                   calls, epubVars, syncVars>>

\* a good response: return response / return content
OnOk ==
    /\ pc = "request"
    /\ \E dur \in ReqDurations :
        /\ now' = now + dur
        /\ t_resp' = now'
    /\ resp' = Received([kind |-> "ok", hasRA |-> FALSE, ra |-> <<>>])
    /\ slept' = 0
    /\ pc' = "done"
    /\ IF client = "api" THEN result' = "response" ELSE result' \in Contents
    /\ UNCHANGED <<client, last_request_time, attempt, nreq, nerr, n429, starts, win,
                   calls, epubVars, syncVars>>

\* except requests.exceptions.RequestException
OnError ==
    /\ pc = "request"
    /\ \E dur \in ReqDurations :
        LET t == now + dur
        IN /\ t_resp' = t
           /\ IF IsLastAttempt(client, attempt)
              THEN /\ slept' = 0
                   /\ now' = t
                   /\ attempt' = attempt
                   /\ pc' = "done"
                   /\ result' = ExhaustedResult(client)
              ELSE /\ slept' = Tenths(Backoff(client, attempt))
                   /\ now' = t + slept'
                   /\ attempt' = attempt + 1
                   /\ IF InRange(client, attempt')
                      THEN pc' = "rate_limit" /\ result' = result
                      ELSE pc' = "done" /\ result' = LoopExitResult(client)
    /\ resp' = Received([kind |-> "err", hasRA |-> FALSE, ra |-> <<>>])
    /\ nerr' = nerr + 1
    /\ UNCHANGED <<client, last_request_time, nreq, n429, starts, win, calls, epubVars, syncVars>>

(* ---------------- html_to_epub: the image loop ---------------- *)
\* "for img in soup.find_all('img')": the next image; an http(s) src is
\* fetched, any other src is left alone
NextImage ==
    /\ client = "img"
    /\ epub = "running"
    /\ pc = "idle"
    /\ imgIdx <= Len(imgs)
    /\ IF imgs[imgIdx] = "http"
       THEN /\ \E gap \in CallGaps : now' = now + gap
            /\ StartCall
            /\ UNCHANGED <<client, last_request_time, starts, win, epubVars, syncVars>>
       ELSE /\ imgIdx' = imgIdx + 1
            /\ srcs' = Append(srcs, Untouched)
            /\ UNCHANGED <<client, now, last_request_time, pc, callVars, starts, win,
                           calls, imgs, img_counter, epub, syncVars>>

\* variant: every embedded image gets the index 0
ImageIndexZero(counter) == 0

\* f"img_{img_counter}.{ext}" and f"image{img_counter}"
ImageIndex(counter) == counter

\* "else: print(Failed to fetch image)": the image is left as it is
OnFetchFailed == Untouched

\* fetch_image is back: embed the content, or leave the image, or (when
\* fetch_image raised, the call being outside the try) leave html_to_epub
FetchReturned ==
    /\ client = "img"
    /\ epub = "running"
    /\ pc = "done"
    /\ pc' = "idle"
    /\ IF result = "ValueError"
       THEN /\ epub' = "raised"
            /\ UNCHANGED <<imgIdx, img_counter, srcs>>
       ELSE /\ epub' = epub
            /\ imgIdx' = imgIdx + 1
            /\ IF result = "bytes"
               THEN \E embedded \in BOOLEAN :
                       IF embedded
                       THEN /\ srcs' = Append(srcs, Embedded(ImageIndex(img_counter)))
                            /\ img_counter' = img_counter + 1
                       ELSE /\ srcs' = Append(srcs, Untouched)
                            /\ img_counter' = img_counter
               ELSE /\ srcs' = Append(srcs, OnFetchFailed)
                    /\ img_counter' = img_counter
    /\ UNCHANGED <<client, now, last_request_time, callVars, starts, win, calls, imgs,
                   syncVars>>

\* epub.write_epub(...) once every image has been handled
WriteEpub ==
    /\ client = "img"
    /\ epub = "running"
    /\ pc = "idle"
    /\ imgIdx > Len(imgs)
    /\ epub' \in {"written", "write_failed"}
    /\ UNCHANGED <<client, now, last_request_time, pc, callVars, starts, win, calls,
                   imgs, imgIdx, img_counter, srcs, syncVars>>

\* the paced clients at rest (behaviours of the sync run do not follow them)
PaceIdle ==
    /\ client = "api"
    /\ now = StartTime
    /\ last_request_time = 0
    /\ pc = "idle"
    /\ attempt = 0
    /\ result = "none"
    /\ resp = NoResp
    /\ nreq = 0 /\ nerr = 0 /\ n429 = 0
    /\ starts = <<-1, -1>>
    /\ win = NotWatched
    /\ t_resp = 0
    /\ slept = 0
    /\ calls = 0
    /\ imgs = <<>>
    /\ imgIdx = 1
    /\ img_counter = 0
    /\ srcs = <<>>
    /\ epub = "none"

\* the state of a process that has not started a run
SyncRest ==
    /\ exported_docs = {}
    /\ documents = <<>>
    /\ new_documents = <<>>
    /\ idx = 1
    /\ category = "none"
    /\ docStatus = "none"
    /\ runOutcome = "none"
    /\ runs = 0
    /\ cleanups = 0
    /\ cleanupErr = FALSE
    /\ uploads = ZeroCount
    /\ runUploads = ZeroCount
    /\ touched = {}
    /\ startRecs = {}
    /\ startLoaded = {}
    /\ location = 1
    /\ page_cursor = NoCursor
    /\ all_documents = <<>>
    /\ pageNo = 0
    /\ lastReq = NoRequest
    /\ lastNext = NoCursor
    /\ lastPage = <<>>
    /\ listing = "none"
    /\ loadErr = "none"
    /\ failed = {}
    /\ processed = <<>>
    /\ image = NoImage
    /\ ext = <<>>

\* no run in progress, no ledger file yet
SyncIdle ==
    /\ file = <<>>
    /\ spc = "off"
    /\ tpc = "off"
    /\ marked = {}
    /\ expected = {}
    /\ SyncRest

Init == PaceIdle /\ SyncIdle

ghostVars == <<uploads, runUploads, touched, startRecs, startLoaded, failed>>

\* ReadwiseRemarkableSync.__init__: a new process, a new ExportTracker
StartRun ==
    /\ spc = "off"
    /\ runs < MaxRuns
    /\ runs' = runs + 1
    /\ spc' = "load"
    /\ exported_docs' = {}
    /\ documents' = <<>>
    /\ new_documents' = <<>>
    /\ idx' = 1
    /\ category' = "none"
    /\ docStatus' = "none"
    /\ runOutcome' = "none"
    /\ cleanups' = 0
    /\ cleanupErr' = FALSE
    /\ runUploads' = ZeroCount
    /\ touched' = {}
    /\ startRecs' = RecordIds(file)
    /\ startLoaded' = {}
    /\ location' = 1
    /\ page_cursor' = NoCursor
    /\ all_documents' = <<>>
    /\ pageNo' = 0
    /\ lastReq' = NoRequest
    /\ lastNext' = NoCursor
    /\ lastPage' = <<>>
    /\ listing' = "none"
    /\ loadErr' = "none"
    /\ processed' = <<>>
    /\ UNCHANGED <<file, uploads, failed, outsideVars>>

\* load_exported_docs reads the whole file
LoadExportedDocs ==
    /\ spc = "load"
    /\ exported_docs' = exported_docs \cup LoadedIds(file, NumLines(file))
    /\ startLoaded' = exported_docs'
    /\ loadErr' = "none"
    /\ spc' = "list"
    /\ UNCHANGED <<file, documents, new_documents, idx, docStatus, runOutcome,
                   runs, cleanups, cleanupErr, uploads, runUploads, touched, startRecs,
                   listVars, failed, processed, category,
                   outsideVars>>

\* variant: the error of the read leaves load_exported_docs and ends the process
OnLoadErrorRaises(read_so_far) == [spc |-> "off", docs |-> read_so_far]

\* "except Exception as e: print(Warning ...)": load_exported_docs returns,
\* the tracker keeps the ids added before the error
OnLoadError(read_so_far) == [spc |-> "list", docs |-> read_so_far]

\* the read raises: at open() or before a first line is there (n = 0: an
\* unreadable file), or after n lines (undecodable bytes further down)
LoadExportedDocsFails ==
    /\ spc = "load"
    /\ file # <<>>
    /\ \E n \in 0..(NumLines(file) - 1) :
          /\ exported_docs' = OnLoadError(exported_docs \cup LoadedIds(file, n)).docs
          /\ spc' = OnLoadError(exported_docs \cup LoadedIds(file, n)).spc
          /\ loadErr' = IF n = 0 THEN "open" ELSE "read"
    /\ startLoaded' = exported_docs'
    /\ UNCHANGED <<file, documents, new_documents, idx, docStatus, runOutcome,
                   runs, cleanups, cleanupErr, uploads, runUploads, touched, startRecs,
                   listVars, failed, processed, category,
                   outsideVars>>

\* the condition of the tag filter for the configured tag
Tagged(doc) == HasTag(doc.tags, Tag)

\* the locals of get_documents when it is left (and before it is entered)
LeaveGetDocuments ==
    /\ location' = 1
    /\ page_cursor' = NoCursor
    /\ all_documents' = <<>>
    /\ pageNo' = 0
    /\ lastReq' = NoRequest
    /\ lastNext' = NoCursor
    /\ lastPage' = <<>>

\* variant: a document collected before is not collected again
ExtendUnseen(collected, kept) ==
    collected \o SelectSeq(kept, LAMBDA d :
                    \A k \in 1..Len(collected) : collected[k].id # d.id)

\* "all_documents.append(doc)" for the documents of a page that pass the
\* filter, in the order of the page
Extend(collected, kept) == collected \o kept

\* get_documents, one iteration of "while True": the request, the tag
\* filter over the page, the cursor; at a falsy cursor the next location
GetDocuments ==
    /\ spc = "list"
    /\ location <= Len(Locations)
    /\ \E page \in ListedPages(runs, Room(runs, all_documents)),
          next \in ListedCursors(runs, pageNo + 1 >= MaxPages) :
          /\ lastReq' = Request(location, pageNo + 1, page_cursor)
          /\ lastNext' = next
          /\ lastPage' = Observed(runs, page)
          /\ all_documents' = Extend(all_documents, SelectSeq(page, Tagged))
          /\ IF Truthy(next)
             THEN /\ page_cursor' = next
                  /\ pageNo' = pageNo + 1
                  /\ location' = location
             ELSE /\ page_cursor' = NoCursor
                  /\ pageNo' = 0
                  /\ location' = location + 1
    /\ UNCHANGED <<file, exported_docs, spc, documents, new_documents, idx,
                   docStatus, runOutcome, runs, cleanups, cleanupErr, ghostVars, listing,
                   loadErr, processed, category,
                   outsideVars>>

\* get_documents: "return all_documents" after the last location
ReturnDocuments ==
    /\ spc = "list"
    /\ location > Len(Locations)
    /\ documents' = all_documents
    /\ listing' = "ok"
    /\ spc' = "filter"
    /\ LeaveGetDocuments
    /\ UNCHANGED <<file, exported_docs, new_documents, idx, docStatus, runOutcome,
                   runs, cleanups, cleanupErr, ghostVars, loadErr, processed, category,
                   outsideVars>>

\* variant: the error is swallowed and the run goes on with what was collected
ListingErrorKeepsCollected(collected) ==
    [spc |-> "filter", runOutcome |-> "none", documents |-> collected]

\* _make_request raises after its last attempt, get_documents does not
\* catch, sync() has "except Exception: raise": sync() raises
ListingError(collected) ==
    [spc |-> "cleanup", runOutcome |-> "raised", documents |-> <<>>]

\* a listing request (any page of any location) ran out of attempts;
\* location and all_documents stay as the exception found them
GetDocumentsRaises ==
    /\ spc = "list"
    /\ location <= Len(Locations)
    /\ listing' = "failed"
    /\ runOutcome' = ListingError(all_documents).runOutcome
    /\ spc' = ListingError(all_documents).spc
    /\ documents' = ListingError(all_documents).documents
    /\ page_cursor' = NoCursor
    /\ pageNo' = 0
    /\ lastReq' = NoRequest
    /\ lastNext' = NoCursor
    /\ lastPage' = <<>>
    /\ UNCHANGED <<file, exported_docs, new_documents, idx, docStatus,
                   runs, cleanups, cleanupErr, ghostVars, location, all_documents, loadErr,
                   processed, category,
                   outsideVars>>

\* ExportTracker.is_exported
is_exported(doc_id) == doc_id \in exported_docs

\* variant: no ledger filter
KeepAll(doc) == TRUE

\* the condition of the list comprehension that builds new_documents
IsNew(doc) == ~is_exported(doc.id)

\* "if not documents: return", the ledger filter, "if not new_documents: return"
FilterDocuments ==
    /\ spc = "filter"
    /\ new_documents' = SelectSeq(documents, IsNew)
    /\ idx' = 1
    /\ IF new_documents' = <<>>
       THEN spc' = "cleanup" /\ runOutcome' = "returned"
       ELSE spc' = "doc" /\ runOutcome' = runOutcome
    /\ UNCHANGED <<file, exported_docs, documents, docStatus, runs, cleanups, cleanupErr,
                   ghostVars, listVars, loadErr, processed, category,
                   outsideVars>>

Doc == new_documents[idx]

\* the loop of sync() moves on: the next document, or "Sync completed!"
NextDocument ==
    /\ idx' = idx + 1
    /\ category' = "none"
    /\ IF idx + 1 <= Len(new_documents)
       THEN spc' = "doc" /\ runOutcome' = runOutcome
       ELSE spc' = "cleanup" /\ runOutcome' = "returned"

\* _process_document up to the first external operation
BeginDocument ==
    /\ spc = "doc"
    /\ processed' = Append(processed, Doc.id)
    /\ \E shape \in Shapes :
          IF ~shape.complete
          THEN \* pdf without source_url / article without html_content: return
               /\ docStatus' = IF shape.category = "pdf" THEN "no_url" ELSE "no_html"
               /\ failed' = failed \cup {Doc.id}
               /\ NextDocument
          ELSE /\ docStatus' = "started"
               /\ spc' = IF shape.category = "pdf" THEN "download" ELSE "convert"
               /\ category' = shape.category
               /\ UNCHANGED <<idx, runOutcome, failed>>
    /\ UNCHANGED <<file, exported_docs, documents, new_documents, runs, cleanups, cleanupErr,
                   uploads, runUploads, touched, startRecs, startLoaded,
                   listVars, loadErr, outsideVars>>

\* requests.get(source_url) ... write the pdf; any exception: print, return
DownloadPdf ==
    /\ spc = "download"
    /\ \E ok \in BOOLEAN :
          IF ok
          THEN /\ docStatus' = "downloaded"
               /\ spc' = "upload"
               /\ UNCHANGED <<idx, category, runOutcome, failed>>
          ELSE /\ docStatus' = "download_failed"
               /\ failed' = failed \cup {Doc.id}
               /\ NextDocument
    /\ UNCHANGED <<file, exported_docs, documents, new_documents, runs, cleanups, cleanupErr,
                   uploads, runUploads, touched, startRecs, startLoaded,
                   listVars, loadErr, processed, outsideVars>>

\* self.converter.html_to_epub(...); any exception: print, return
ConvertToEpub ==
    /\ spc = "convert"
    /\ touched' = touched \cup {Doc.id}
    /\ \E ok \in BOOLEAN :
          IF ok
          THEN /\ docStatus' = "converted"
               /\ spc' = "upload"
               /\ UNCHANGED <<idx, category, runOutcome, failed>>
          ELSE /\ docStatus' = "convert_failed"
               /\ failed' = failed \cup {Doc.id}
               /\ NextDocument
    /\ UNCHANGED <<file, exported_docs, documents, new_documents, runs, cleanups, cleanupErr,
                   uploads, runUploads, startRecs, startLoaded, listVars, loadErr,
                   processed, outsideVars>>

\* the handler an exception meets first when it is raised inside
\* _process_document after the branch on the category: the try of the pdf
\* branch encloses download, upload and mark_exported; the try around
\* html_to_epub encloses nothing else, so that upload and mark_exported of
\* an article are enclosed only by the try in the loop of sync()
Handler(cat) == IF cat = "pdf" THEN "process_document" ELSE "sync"

\* variant: the loop of sync has no handler, only the pdf branch has one
DocumentExceptionAborts(cat) == IF cat = "pdf" THEN "next" ELSE "abort"

\* an exception inside _process_document: the pdf branch catches it and
\* returns, any other reaches "except Exception: ... continue" in the loop
\* of sync; either way the loop goes on with the next document
DocumentException(cat) == "next"

\* where the run goes after an exception inside _process_document
AfterException ==
    IF DocumentException(category) = "next"
    THEN NextDocument
    ELSE /\ spc' = "cleanup"
         /\ runOutcome' = "raised"
         /\ UNCHANGED <<idx, category>>

\* variant: only an exception of upload_file keeps the document unrecorded
AfterUploadFalseMarks(answer) == IF answer = "raised" THEN "next" ELSE "mark_append"

\* variant: the upload result is not looked at
AfterUploadAlways(answer) == "mark_append"

\* "if upload_success: self.tracker.mark_exported(...)", else the document
\* is left; an exception of upload_file other than CalledProcessError ends
\* the document too (caught in the pdf branch, or by the loop of sync)
AfterUpload(answer) == IF answer = "true" THEN "mark_append" ELSE "next"

\* self.uploader.upload_file(path): rmapi put answers 0, or non-zero, or
\* cannot be run
UploadFile ==
    /\ spc = "upload"
    /\ touched' = touched \cup {Doc.id}
    /\ \E answer \in {"true", "false", "raised"} :
          /\ docStatus' = (IF answer = "true" THEN "uploaded"
                           ELSE "upload_failed")
          /\ uploads' = IF answer = "true"
                        THEN [uploads EXCEPT ![Doc.id] = Count(@)] ELSE uploads
          /\ runUploads' = IF answer = "true"
                           THEN [runUploads EXCEPT ![Doc.id] = Count(@)] ELSE runUploads
          /\ failed' = IF answer = "true" THEN failed \ {Doc.id}
                       ELSE failed \cup {Doc.id}
          /\ IF AfterUpload(answer) = "mark_append"
             THEN spc' = "mark_append" /\ UNCHANGED <<idx, category, runOutcome>>
             ELSE IF answer = "raised" THEN AfterException
             ELSE NextDocument
    /\ UNCHANGED <<file, exported_docs, documents, new_documents, runs, cleanups, cleanupErr,
                   startRecs, startLoaded, listVars, loadErr, processed, outsideVars>>

\* variant: the add comes first, the append after it
SetAtAppendAdded(docs, doc_id) == docs \cup {doc_id}

\* the in-memory set while mark_exported appends to the file: the add
\* comes after the append
SetAtAppend(docs, doc_id) == docs

\* mark_exported, first half: append the entry to the file; an OSError
\* leaves mark_exported and the document
MarkExportedAppend ==
    /\ spc = "mark_append"
    /\ exported_docs' = SetAtAppend(exported_docs, Doc.id)
    /\ \E ok \in BOOLEAN :
          IF ok
          THEN /\ file' = file \o Entry(Timestamp, TitleOf(Doc.id), Doc.id)
               /\ spc' = "mark_add"
               /\ UNCHANGED <<idx, category, runOutcome, docStatus>>
          ELSE /\ file' = file
               /\ docStatus' = (IF Handler(category) = "sync"
                                THEN "append_failed"
                                ELSE "append_failed_pdf")
               /\ AfterException
    /\ UNCHANGED <<documents, new_documents, runs, cleanups, cleanupErr,
                   ghostVars, listVars, loadErr, processed, outsideVars>>

\* mark_exported, second half: self.exported_docs.add(doc_id)
MarkExportedAdd ==
    /\ spc = "mark_add"
    /\ exported_docs' = exported_docs \cup {Doc.id}
    /\ docStatus' = "marked"
    /\ NextDocument
    /\ UNCHANGED <<file, documents, new_documents, runs, cleanups, cleanupErr, ghostVars,
                   listVars, loadErr, processed, outsideVars>>

\* the frames of the run are left (the process ends, or an interrupt
\* unwinds them): the in-memory set, the locals and the record of the run
\* are gone; what stays is the file and what was uploaded
RunForgotten ==
    /\ exported_docs' = {}
    /\ documents' = <<>>
    /\ new_documents' = <<>>
    /\ idx' = 1
    /\ category' = "none"
    /\ docStatus' = "none"
    /\ runUploads' = ZeroCount
    /\ touched' = {}
    /\ startRecs' = {}
    /\ startLoaded' = {}
    /\ listing' = "none"
    /\ loadErr' = "none"
    /\ processed' = <<>>
    /\ LeaveGetDocuments

\* variant: the exception leaves _cleanup_temp_files and sync() with it
OnCleanupErrorRaises(outcome) == "cleanup_raised"

\* _cleanup_temp_files: "except Exception as e: print(Warning ...)"
OnCleanupError(outcome) == outcome

\* finally: self._cleanup_temp_files(); then sync() is left and the
\* process ends
\* an unlink or a glob raises inside it: "except Exception", a warning is
\* printed, the run ends as it was ending
CleanupTempFiles ==
    /\ spc = "cleanup"
    /\ cleanups' = cleanups + 1
    /\ spc' = "off"
    /\ \E raised \in BOOLEAN :
          /\ cleanupErr' = raised
          /\ runOutcome' = IF raised THEN OnCleanupError(runOutcome) ELSE runOutcome
    /\ RunForgotten
    /\ UNCHANGED <<file, runs, uploads, failed, outsideVars>>

InSync == {"list", "filter", "doc", "download", "convert", "upload",
           "mark_append", "mark_add"}

\* KeyboardInterrupt inside the try of sync(): not an Exception, so no
\* handler takes it; the finally clause runs and main() ends the process
Interrupt ==
    /\ spc \in InSync
    /\ runOutcome' = "interrupted"
    /\ spc' = "cleanup"
    /\ RunForgotten
    /\ UNCHANGED <<file, runs, cleanups, cleanupErr, uploads, failed, outsideVars>>

\* the process is killed: nothing more runs, the file stays as it is
Crash ==
    /\ spc \in InSync \cup {"load", "cleanup"}
    /\ runOutcome' = "crashed"
    /\ spc' = "off"
    /\ RunForgotten
    /\ UNCHANGED <<file, runs, cleanups, cleanupErr, uploads, failed, outsideVars>>

Next ==
    \/ StartRun
    \/ LoadExportedDocs
    \/ LoadExportedDocsFails
    \/ GetDocuments
    \/ ReturnDocuments
    \/ GetDocumentsRaises
    \/ FilterDocuments
    \/ BeginDocument
    \/ DownloadPdf
    \/ ConvertToEpub
    \/ UploadFile
    \/ MarkExportedAppend
    \/ MarkExportedAdd
    \/ CleanupTempFiles
    \/ Interrupt
    \/ Crash

Spec == Init /\ [][Next]_vars

PaceNext ==
    \/ ApiCall
    \/ RateLimit
    \/ On429
    \/ On403
    \/ OnOk
    \/ OnError
    \/ NextImage
    \/ FetchReturned
    \/ WriteEpub

\* one paced client followed on its own, no run of sync in progress
PaceStart == PaceInit /\ SyncIdle

PaceSpec == PaceStart /\ [][PaceNext]_vars


(* ================ one ReadwiseAPI instance over a minute ================ *)
\* the instance as constructed, the window watched
QuotaStart ==
    /\ client = "api"
    /\ now = StartTime
    /\ last_request_time = 0
    /\ pc = "idle"
    /\ attempt = 0
    /\ result = "none"
    /\ resp = NoResp
    /\ nreq = 0 /\ nerr = 0 /\ n429 = 0
    /\ starts = <<-1, -1>>
    /\ win = NotBegun
    /\ t_resp = 0
    /\ slept = 0
    /\ calls = 0
    /\ imgs = <<>>
    /\ imgIdx = 1
    /\ img_counter = 0
    /\ srcs = <<>>
    /\ epub = "none"
    /\ SyncIdle

\* _make_request is called again and again, at once or after a pause, until
\* the minute watched is over
QuotaCall ==
    /\ client = "api"
    /\ pc \in {"idle", "done"}
    /\ win.start < 0 \/ now <= win.start + Window
    /\ \E gap \in CallGaps : now' = now + gap
    /\ StartCall
    /\ UNCHANGED <<client, last_request_time, starts, win, epubVars, syncVars>>

\* the answers come at once
QuotaOk == OnOk /\ now' = now
QuotaError == OnError /\ t_resp' = now
QuotaRateLimited == On429 /\ t_resp' = now

QuotaNext ==
    \/ QuotaCall
    \/ RateLimit
    \/ QuotaOk
    \/ QuotaError
    \/ QuotaRateLimited

QuotaSpec == QuotaStart /\ [][QuotaNext]_vars

(* ================ get_documents followed on its own ==================== *)
\* get_documents called with the configured locations and tag, no run of
\* sync around it
ListInit ==
    /\ file = <<>>
    /\ spc = "list"
    /\ tpc = "off"
    /\ marked = {}
    /\ expected = {}
    /\ SyncRest

ListStart == PaceIdle /\ ListInit

ListNext ==
    \/ GetDocuments
    \/ ReturnDocuments
    \/ GetDocumentsRaises

ListSpec == ListStart /\ [][ListNext]_vars

(* ====== _determine_image_extension followed on its own (converter.py) == *)
\* everything but the arguments and the result of the classifier
convRest == <<file, exported_docs, spc, documents, new_documents, idx, category,
              docStatus, runOutcome, runs, cleanups, cleanupErr, uploads, runUploads,
              touched, startRecs, startLoaded, listVars, loadErr, failed,
              processed, trackerVars, paceVars>>

\* nothing classified yet
ExtStart == PaceIdle /\ SyncIdle

\* "ext = self._determine_image_extension(src, content)"
DetermineImageExtension ==
    /\ image = NoImage
    /\ \E url \in Urls, content \in Bodies :
          /\ image' = [url |-> url, content |-> content]
          /\ ext' = determine_image_extension(url, content)
    /\ UNCHANGED convRest

ExtNext == DetermineImageExtension

ExtSpec == ExtStart /\ [][ExtNext]_vars

(* ================ the tracker followed on its own (tracker.py) ========== *)
\* lines the ledger file can hold when the tracker is constructed, at most
MaxFileLines == 3
\* lines the ledger file is let grow to
MaxLedgerLines == 4

\* titles given to mark_exported
Titles == { <<"T">>, <<"(", "x", ")">>, <<":", "(">> }

\* lines a ledger file can start with, each with the ids it stands for: a
\* record, a record with blanks around it, a blank line, a comment (one
\* that ends like a record), and lines that do not end with "(<id>)"
LineKinds ==
    { [text |-> Entry(Timestamp, <<"T">>, <<"a">>), ids |-> {<<"a">>}],
      [text |-> <<" ", "(", "b", ")", " ", "\n">>, ids |-> {<<"b">>}],
      [text |-> <<"\n">>, ids |-> {}],
      [text |-> <<"#", " ", "(", "a", ")", "\n">>, ids |-> {}],
      [text |-> <<"g", "\n">>, ids |-> {}],
      [text |-> <<"(", "b", ")", "x", "\n">>, ids |-> {}],
      [text |-> <<"(", ")", "\n">>, ids |-> {}] }

RECURSIVE Concat(_)
Concat(ls) == IF ls = <<>> THEN <<>> ELSE Head(ls).text \o Concat(Tail(ls))

\* the files the tracker can find
InitialFiles ==
    { [text |-> Concat(ls), ids |-> UNION {ls[k].ids : k \in 1..Len(ls)}] :
        ls \in UNION {[1..n -> LineKinds] : n \in 0..MaxFileLines} }

\* everything but the file and the tracker
trackerRest == <<spc, documents, new_documents, idx, category, docStatus,
                 runOutcome, runs, cleanups, cleanupErr, uploads, runUploads, touched,
                 startRecs, startLoaded, listVars, loadErr, failed, processed,
                 paceVars, convVars>>

\* ExportTracker.__init__ up to the call of load_exported_docs
TrackerInit ==
    /\ \E f \in InitialFiles : file = f.text /\ expected = f.ids
    /\ spc = "off"
    /\ tpc = "new"
    /\ marked = {}
    /\ SyncRest

TrackerStart == PaceIdle /\ TrackerInit

\* load_exported_docs reads the whole file
TrackerLoad ==
    /\ tpc = "new"
    /\ exported_docs' = exported_docs \cup LoadedIds(file, NumLines(file))
    /\ tpc' = "loaded"
    /\ UNCHANGED <<file, marked, expected, trackerRest>>

\* the read raises after n lines: warning, the tracker keeps what it has
TrackerLoadFails ==
    /\ tpc = "new"
    /\ file # <<>>
    /\ \E n \in 0..(NumLines(file) - 1) :
          exported_docs' = OnLoadError(exported_docs \cup LoadedIds(file, n)).docs
    /\ tpc' = "degraded"
    /\ UNCHANGED <<file, marked, expected, trackerRest>>

\* mark_exported(doc_id, title) with no crash in it: the append, then the
\* add; an OSError of the append leaves the file and the set
TrackerMark ==
    /\ tpc \in {"loaded", "degraded"}
    /\ NumLines(file) < MaxLedgerLines
    /\ \E doc_id \in DocIds, title \in Titles, ok \in BOOLEAN :
          IF ok
          THEN /\ file' = file \o Entry(Timestamp, title, doc_id)
               /\ exported_docs' = exported_docs \cup {doc_id}
               /\ marked' = marked \cup {doc_id}
          ELSE UNCHANGED <<file, exported_docs, marked>>
    /\ UNCHANGED <<tpc, expected, trackerRest>>

\* the process ends and a new one constructs a new ExportTracker
TrackerRestart ==
    /\ tpc \in {"loaded", "degraded"}
    /\ tpc' = "new"
    /\ exported_docs' = {}
    /\ UNCHANGED <<file, marked, expected, trackerRest>>

TrackerNext ==
    \/ TrackerLoad
    \/ TrackerLoadFails
    \/ TrackerMark
    \/ TrackerRestart

TrackerSpec == TrackerStart /\ [][TrackerNext]_vars

(* ======================= properties of the paced clients ================ *)
ClaimedInterval(c) == IF c = "api" THEN 31 ELSE 10
ClaimedCap(c) == IF c = "api" THEN 5 ELSE 3

\* C1: the start times of two consecutive requests of one instance are at
\* least the instance's minimum interval apart (3.1 s API, 1.0 s images),
\* retries after errors and after 429 responses included.
C1_PacingInvariant ==
    starts[1] >= 0 => starts[2] - starts[1] >= ClaimedInterval(client)

\* a retry that had to sleep in _rate_limit, in a call that saw both a 429
\* and a transport error
C1_Witness ==
    /\ client = "api"
    /\ pc = "request"
    /\ n429 > 0 /\ nerr > 0
    /\ starts[1] >= 0
    /\ starts[2] - starts[1] = 31

\* C6: when every attempt fails with a transport error the call makes
\* exactly max_retries requests (5 API, 3 images), then _make_request
\* propagates the last error and fetch_image returns None.
C6_RetryCap ==
    /\ nreq <= ClaimedCap(client)
    /\ (pc = "done" /\ nreq > 0 /\ nerr = nreq) =>
          /\ nreq = ClaimedCap(client)
          /\ result = (IF client = "api" THEN "raise_last" ELSE "None")

C6_Witness ==
    /\ client = "api" /\ pc = "done" /\ nerr = 5 /\ nreq = 5
    /\ result = "raise_last"

ReturnedSuccess ==
    (pc = "done" /\ resp.kind = "ok" /\ n429 = 0) =>
        /\ result \in {"response", "bytes", "empty"}
        /\ nreq = nerr + 1
        /\ nerr < ClaimedCap(client)

\* C7: when the first k attempts fail with a transport error and attempt
\* k+1 succeeds (0 <= k < max_retries), the call returns that success after
\* exactly k+1 requests, and a call that has ended issues no request.
C7_SuccessAfterFailures ==
    /\ []ReturnedSuccess
    /\ [][pc = "done" => (nreq' = nreq \/ calls' = calls + 1)]_vars

\* k = max_retries - 1: four failures, then the fifth request succeeds
C7_Witness ==
    /\ client = "api" /\ pc = "done" /\ result = "response"
    /\ n429 = 0 /\ nerr = 4 /\ nreq = 5

Slept429 == pc = "request" /\ n429' = n429 + 1 /\ result' # "ValueError"

\* C8 as stated: a 429 response leaves the number of attempts still
\* available unchanged.
C8_Original ==
    [][Slept429 => MaxRetries(client) - attempt' = MaxRetries(client) - attempt]_vars

\* C8 amended: a 429 response whose wait was slept consumes one slot of
\* the attempt cap, as a failed attempt does: one attempt fewer is
\* available after it than before it.
C8_ConsumesSlot ==
    [][Slept429 => ClaimedCap(client) - attempt' = ClaimedCap(client) - attempt - 1]_vars

\* the retry that follows a 429 runs as attempt 1
C8_Witness ==
    /\ pc = "request" /\ resp.kind = "429" /\ attempt = 1 /\ n429 = 1 /\ nreq = 2

ExpectedWait429 ==
    IF resp.hasRA THEN IntVal(resp.ra) ELSE 2 * (2 ^ resp.at)

C9_WitnessNoHeader ==
    /\ pc = "request" /\ resp.kind = "429" /\ ~resp.hasRA /\ resp.at = 1
    /\ slept = 40

\* C11: in fetch_image a 403 response on any attempt ends the call at
\* once: None is returned, nothing is raised, no backoff is slept and no
\* further request is made for that URL.
C11_ForbiddenIsTerminal ==
    /\ [](resp.kind = "403" =>
            /\ client = "img" /\ pc \in {"done", "idle"} /\ result = "None"
            /\ slept = 0 /\ now = t_resp
            /\ nreq = resp.at + 1)
    /\ [][(pc = "request" /\ resp'.kind = "403") =>
            (pc' = "done" /\ now' - now \in ReqDurations /\ nreq' = nreq)]_vars

\* a 403 on the second attempt, after a transport error
C11_Witness ==
    /\ client = "img" /\ pc = "done" /\ resp.kind = "403" /\ resp.at = 1
    /\ nerr = 1 /\ nreq = 2 /\ result = "None"

\* C10 as stated: whatever the image requests answer, fetch_image returns
\* bytes or None without raising and html_to_epub goes on to the remaining
\* images and converts the document.
C10_ImageFailuresNeverFatal ==
    client = "img" => (result # "ValueError" /\ epub # "raised")


(* ======================= properties of the sync run ===================== *)
\* C2: in every reachable state, also the one an interrupt or a crash
\* leaves, every id recorded in the ledger (file line or in-memory entry)
\* is the id of a document whose upload had returned success, and
\* mark_exported runs only for a document whose upload just succeeded.
C2_LedgerOnlyAfterUpload ==
    /\ \A id \in RecordIds(file) : id \in DocIds /\ uploads[id] > 0
    /\ \A id \in exported_docs : id \in DocIds /\ uploads[id] > 0
    /\ spc \in {"mark_append", "mark_add"} =>
          (docStatus = "uploaded" /\ runUploads[Doc.id] > 0)

\* an interrupted or killed run that recorded one document and had a
\* failed one: only the uploaded one is in the file
C2_Witness ==
    /\ runOutcome \in {"interrupted", "crashed"}
    /\ spc = "off"
    /\ RecordIds(file) = {<<"a">>}
    /\ uploads[<<"b">>] = 0
    /\ <<"b">> \in failed

\* C3 as stated: an id that has a record in the file when a run starts is
\* not converted or uploaded during that run.
C3_Original ==
    \A id \in startRecs : id \notin touched

\* C3 amended: an id whose record load_exported_docs has read into the
\* in-memory set at the start of a run is not converted or uploaded
\* during that run, whatever the listing returns.
C3_LoadedNeverReprocessed ==
    \A id \in startLoaded : id \notin touched

\* a second run whose listing holds an already recorded document and a new
\* one, and which has processed the new one
C3_Witness ==
    /\ runs = 2
    /\ startLoaded = {<<"a">>}
    /\ \E k \in 1..Len(documents) : documents[k].id = <<"a">>
    /\ touched = {<<"b">>}
    /\ uploads[<<"b">>] = 1

\* C4 as stated: a document listed twice in one run (matched in two
\* locations) is uploaded at most once in that run.
C4_AtMostOncePerRun ==
    \A id \in DocIds : runUploads[id] <= 1

\* C5 as stated: over any sequence of runs on the same ledger file, runs
\* that crash or are interrupted included, each id is uploaded at most once.
C5_AtMostOnceDelivery ==
    \A id \in DocIds : uploads[id] <= 1

\* C12: when a listing request runs out of attempts, on any page of any
\* location, sync() raises, no document of the run is converted or uploaded
\* (those collected from earlier pages and locations included), and the
\* ledger file and the in-memory set stay as they were.
C12_ListingFailureAborts ==
    /\ [](listing = "failed" =>
            /\ spc = "cleanup" /\ runOutcome = "raised"
            /\ touched = {} /\ processed = <<>> /\ runUploads = ZeroCount
            /\ exported_docs = startLoaded)
    /\ [][(spc = "list" \/ listing = "failed") /\ runs' = runs
            => file' = file]_vars
    /\ [][spc = "list" /\ (spc' = "list" \/ listing' # "none")
            => exported_docs' = exported_docs]_vars
    /\ [][listing # "failed" /\ listing' = "failed" => runOutcome' = "raised"]_vars

\* the request for the second location fails in the second run, with a
\* document collected from the first location and a ledger that has a record
C12_Witness ==
    /\ listing = "failed" /\ spc = "cleanup" /\ runOutcome = "raised"
    /\ runs = 2 /\ file # <<>>
    /\ location = 2 /\ Len(all_documents) = 1

PerDocumentFailures ==
    {"no_url", "no_html", "download_failed", "convert_failed", "upload_failed"}

Listed(id) == \E k \in 1..Len(documents) : documents[k].id = id
Selected(id) == \E k \in 1..Len(new_documents) : new_documents[k].id = id

\* the ledger filter of this run has been applied
FilterDone ==
    \/ spc \in {"doc", "download", "convert", "upload", "mark_append", "mark_add"}
    \/ spc = "cleanup" /\ runOutcome = "returned"

\* C13 as stated: a document whose processing ended in a per-document
\* failure is selected again by a following run whose listing returns it.
C13_Original ==
    FilterDone => \A id \in failed : Listed(id) => Selected(id)

\* C13 amended: a per-document failure leaves the ledger file and the
\* in-memory set as they were, and a following run whose listing returns
\* the document selects it again when the file had no record of its id at
\* the start of that run.
C13_FailureKeepsRetry ==
    /\ [](FilterDone =>
            \A id \in failed \ startRecs : Listed(id) => Selected(id))
    /\ [][runs' = runs /\ docStatus' \in PerDocumentFailures
            => file' = file /\ exported_docs' = exported_docs]_vars

\* the second run has just selected a document that failed in the first
C13_Witness ==
    /\ runs = 2 /\ spc = "doc" /\ processed = <<>>
    /\ failed = {<<"a">>} /\ uploads[<<"a">>] = 0
    /\ Selected(<<"a">>)

Processing == {"doc", "download", "convert", "upload", "mark_append", "mark_add"}

NotLoadedAtStart(doc) == doc.id \notin startLoaded

\* the ids of the listed documents the ledger did not hold when the run
\* started, in listing order
ToProcess ==
    LET docs == SelectSeq(documents, NotLoadedAtStart)
    IN [k \in 1..Len(docs) |-> docs[k].id]

\* documents passed to _process_document once the loop stands at spc
PassedAt(position) == IF position = "doc" THEN idx - 1 ELSE idx

\* what is left to do in the loop of sync: documents, then steps of one
StepsLeft ==
    (Len(new_documents) - idx) * 6
    + (CASE spc = "doc" -> 5
         [] spc \in {"download", "convert"} -> 4
         [] spc = "upload" -> 3
         [] spc = "mark_append" -> 2
         [] OTHER -> 1)

\* C14: once the listing has succeeded, every listed document the ledger
\* did not hold at the start of the run is passed to _process_document, in
\* listing order, whatever happened to the documents before it, and sync()
\* then returns normally: while the loop runs the documents passed are a
\* prefix of them, every step that is not an interrupt or a kill brings
\* the loop nearer its end, a step is always possible, and the loop is
\* left only when all of them have been passed.
C14_EveryDocumentAttempted ==
    /\ [](spc \in Processing =>
            /\ PassedAt(spc) <= Len(ToProcess)
            /\ processed = SubSeq(ToProcess, 1, PassedAt(spc))
            /\ ENABLED (BeginDocument \/ DownloadPdf \/ ConvertToEpub \/ UploadFile
                        \/ MarkExportedAppend \/ MarkExportedAdd))
    /\ [](listing = "ok" /\ runOutcome = "returned" => processed = ToProcess)
    /\ [][(spc \in Processing /\ runOutcome' \notin {"interrupted", "crashed"})
            => ((spc' \in Processing /\ StepsLeft' < StepsLeft)
                \/ (spc' = "cleanup" /\ runOutcome' = "returned"))]_vars
    /\ [][(spc = "filter" /\ runOutcome' \notin {"interrupted", "crashed"})
            => ((spc' = "doc" /\ ToProcess # <<>>)
                \/ (spc' = "cleanup" /\ runOutcome' = "returned"))]_vars

\* a run that ended normally after the first of two documents failed at the
\* upload and the second was recorded
C14_Witness ==
    /\ spc = "cleanup" /\ runOutcome = "returned" /\ listing = "ok"
    /\ processed = <<<<"a">>, <<"b">>>>
    /\ <<"a">> \in failed /\ uploads[<<"a">>] = 0 /\ <<"a">> \in touched
    /\ docStatus = "marked"

(* ======================= properties of the tracker ====================== *)
\* C15 as stated: for every doc_id and every title, after a crash-free
\* mark_exported(doc_id, title) a new ExportTracker that has loaded the
\* same file reports is_exported(doc_id) = true.
C15_RestartRoundTrip ==
    tpc = "loaded" => \A doc_id \in marked : is_exported(doc_id)

\* C18: the load ignores blank lines, lines that start with "#" and lines
\* that do not end with "(<id>)", and does not raise on them: the load of
\* any such file ends, and after it the in-memory set is exactly the set of
\* the ids of the other lines.
C18_LoadParsesRecordsOnly ==
    (tpc = "loaded" /\ marked = {}) => exported_docs = expected

\* a file with one record for a, a comment line and a garbage line has
\* been loaded: is_exported(a), not is_exported(b)
C18_Witness ==
    /\ tpc = "loaded" /\ marked = {}
    /\ file = Entry(Timestamp, <<"T">>, <<"a">>)
              \o <<"#", " ", "(", "a", ")", "\n">> \o <<"g", "\n">>
    /\ is_exported(<<"a">>) /\ ~is_exported(<<"b">>)

(* ======================= properties of the ledger in a run ============== *)
\* C16: mark_exported appends to the file before it adds to the in-memory
\* set, so in every state, those a crash or an error can interrupt
\* included, every id of the in-memory set has a record line in the file.
C16_MemoryWithinFile ==
    exported_docs \subseteq RecordIds(file)

\* between the append and the add: the file holds the id, the set not yet
C16_Witness ==
    /\ spc = "mark_add"
    /\ Doc.id \in RecordIds(file)
    /\ Doc.id \notin exported_docs

\* C17 as stated: over any run or sequence of runs the ledger file never
\* receives two record lines for the same doc_id.
C17_OneRecordPerDocument ==
    \A doc_id \in DocIds : Cardinality(RecordLines(file, doc_id)) <= 1

\* C19: a ledger file that cannot be read does not abort the start:
\* load_exported_docs returns and the run goes on to the listing; when
\* nothing of the file could be read the tracker starts with an empty set
\* and every listed document is taken as not yet exported.
C19_UnreadableLedgerDegrades ==
    /\ loadErr # "none" => spc \notin {"off", "load"}
    /\ loadErr = "open" => startLoaded = {}
    /\ (loadErr = "open" /\ spc \in {"list", "filter"}) => exported_docs = {}
    /\ (loadErr = "open" /\ FilterDone) => new_documents = documents

\* the file has a record of a, could not be opened, and a is selected
C19_Witness ==
    /\ loadErr = "open" /\ startRecs = {<<"a">>}
    /\ spc = "doc" /\ Selected(<<"a">>)

(* ======================= properties of get_documents ==================== *)
C20_Falsy(c) == ~c.given \/ c.val = ""

\* the request a step sends continues the location of the last one
C20_SameLocation ==
    /\ ~C20_Falsy(lastNext)
    /\ lastReq'.pageCursor = lastNext
    /\ lastReq'.page = lastReq.page + 1

\* the request a step sends is the first of the next location
C20_NextLocation ==
    /\ lastReq'.location = lastReq.location + 1
    /\ lastReq'.page = 1
    /\ lastReq'.pageCursor = NoCursor
    /\ lastReq.location > 0 => C20_Falsy(lastNext)

\* C20: for each location the first listing request carries no pageCursor,
\* every later request for it carries exactly the nextPageCursor of the
\* page before, the requests for it stop at the first page whose
\* nextPageCursor is absent or falsy, and no cursor of one location is sent
\* for another; get_documents returns after such a page of the last location.
C20_Pagination ==
    /\ [][(lastReq' # lastReq /\ lastReq'.location > 0)
            => IF lastReq'.location = lastReq.location
               THEN C20_SameLocation ELSE C20_NextLocation]_vars
    /\ [][(listing = "none" /\ listing' = "ok")
            => (lastReq.location = Len(Locations) /\ C20_Falsy(lastNext))]_vars

\* the second location has had a second page, asked for with the cursor
\* "c2" of its first page, and that page came with an empty cursor
C20_Witness ==
    /\ lastReq = [location |-> 2, page |-> 2,
                  pageCursor |-> [given |-> TRUE, val |-> "c2"]]
    /\ lastNext = [given |-> TRUE, val |-> ""]
    /\ location = 3 /\ spc = "list" /\ runs = 0

\* the tags of a document contain the tag
C21_Kept(doc) == doc.tags.form \in {"dict", "list"} /\ Tag \in doc.tags.names

\* C21: what get_documents returns is the concatenation, over the locations
\* in the order given and over the pages of each location in the order
\* fetched, of the documents of each page whose tags contain the tag, in
\* page order: it starts empty, every page received appends exactly its
\* documents that match (one entry per match, whatever was collected
\* before), and the list returned is the list collected.
C21_Concatenation ==
    /\ []((spc = "list" /\ lastReq.location = 0) => all_documents = <<>>)
    /\ [][(lastReq' # lastReq /\ lastReq'.location > 0)
            => all_documents' = all_documents \o SelectSeq(lastPage', C21_Kept)]_vars
    /\ [][(listing = "none" /\ listing' = "ok")
            => documents' = all_documents]_vars

\* a first page with a cursor and two matching documents, then a second
\* page with no cursor and one matching document, the one the first page
\* began with: three documents collected, in page order
C21_Witness ==
    /\ runs = 0 /\ spc = "list"
    /\ lastReq.location = 1 /\ lastReq.page = 2 /\ lastReq.pageCursor.given
    /\ lastNext = NoCursor
    /\ Len(lastPage) = 1 /\ C21_Kept(lastPage[1])
    /\ Len(all_documents) = 3
    /\ all_documents[1] # all_documents[2]
    /\ all_documents[3] = all_documents[1]
    /\ all_documents[3] = lastPage[1]

\* the tag is a key of the mapping or an element of the sequence
C22_Member(t) ==
    CASE t.form = "dict" -> Tag \in t.names
      [] t.form = "list" -> Tag \in t.names
      [] OTHER -> FALSE

\* C22: a document is kept exactly when its tags are a mapping with the tag
\* among the keys or a sequence with the tag among the elements; with the
\* field missing or of any other shape it is never kept: a page adds as many
\* documents as it has members, and a page of one document adds it exactly
\* when it is a member.
C22_TagMembership ==
    [][(lastReq' # lastReq /\ lastReq'.location > 0)
        => /\ Len(all_documents') - Len(all_documents)
                = Cardinality({k \in 1..Len(lastPage') : C22_Member(lastPage'[k].tags)})
           /\ Len(lastPage') = 1
                => all_documents' = IF C22_Member(lastPage'[1].tags)
                                    THEN Append(all_documents, lastPage'[1])
                                    ELSE all_documents]_vars

\* a document whose tags are a list with the tag was kept, and then one whose
\* tags are neither mapping nor list (the bare string, say) was not
C22_Witness ==
    /\ runs = 0 /\ spc = "list" /\ lastReq.location = 1 /\ lastReq.page = 2
    /\ Len(all_documents) = 1
    /\ all_documents[1].tags = [form |-> "list", names |-> {Tag, "other"}]
    /\ Len(lastPage) = 1
    /\ lastPage[1].tags = [form |-> "other", names |-> {Tag}]

(* ================ properties of _determine_image_extension ============= *)
\* the bytes begin with sig
C23_Begins(content, sig) ==
    \A i \in 1..Len(sig) : i <= Len(content) /\ content[i] = sig[i]

\* tag lies within the first n bytes
C23_Within(content, tag, n) ==
    \E at \in 0..(n - Len(tag)) :
        \A i \in 1..Len(tag) : at + i <= Len(content) /\ content[at + i] = tag[i]

\* the extension of the signature the bytes carry, <<>> when they carry none
C23_Signature(content) ==
    CASE C23_Begins(content, PngSig) -> Png
      [] C23_Begins(content, JpegSig) -> Jpg
      [] C23_Begins(content, GifSig) -> Gif
      [] C23_Begins(content, RiffSig) /\ C23_Within(content, WebpTag, 12) -> Webp
      [] OTHER -> IF C23_Within(content, SvgTag, 100) THEN Svg ELSE <<>>

\* the URL ends in "." and e
C23_UrlEnds(url, e) ==
    /\ Len(url) > Len(e)
    /\ SubSeq(url, Len(url) - Len(e), Len(url)) = <<".">> \o e

\* C23: content sniffing has priority over the URL: bytes that carry a PNG,
\* JPEG, GIF, RIFF/WEBP or <svg signature get the extension of that signature
\* whatever the URL; without a signature a URL ending in png, gif, webp, svg
\* or bmp gives that extension and one ending in jpeg gives jpg; a URL with
\* no dot or ending in an extension outside the list gives jpg.
C23_SniffBeforeUrl ==
    image # NoImage =>
        LET sig == C23_Signature(image.content)
        IN /\ sig # <<>> => ext = sig
           /\ sig = <<>> =>
                /\ \A e \in {Png, Gif, Webp, Svg, Bmp} :
                      C23_UrlEnds(image.url, e) => ext = e
                /\ C23_UrlEnds(image.url, Jpeg) => ext = Jpg
                /\ (\A i \in 1..Len(image.url) : image.url[i] # ".") => ext = Jpg
                /\ C23_UrlEnds(image.url, Jpg) => ext = Jpg
                /\ C23_UrlEnds(image.url, <<"t", "i", "f", "f">>) => ext = Jpg

\* a URL ending in .png served JPEG bytes and the extension is jpg
C23_Witness ==
    /\ C23_UrlEnds(image.url, Png)
    /\ C23_Begins(image.content, JpegSig)
    /\ ext = Jpg

\* a URL ending in .svg, bytes with no signature and no <svg marker
C24_SvgUrlOnly ==
    /\ image # NoImage
    /\ C23_UrlEnds(image.url, Svg)
    /\ C23_Signature(image.content) = <<>>

C25_FetchFailed == result \in {"None", "empty"}

\* C25 as stated: whatever the fetches of the images come to, an image
\* whose fetch failed (None or empty bytes) keeps the src it had, an image
\* whose src is not an http(s) URL is never fetched and never modified, and
\* html_to_epub gets to writing its output.
C25_ImagesBestEffort ==
    /\ [](client = "img" =>
            /\ epub # "raised"
            /\ \A k \in 1..Len(srcs) : imgs[k] = "rel" => srcs[k] = Untouched
            /\ (pc # "idle" /\ epub = "running") => imgs[imgIdx] = "http")
    /\ [][(client = "img" /\ pc = "done" /\ pc' = "idle" /\ C25_FetchFailed)
            => (epub' = "running" /\ srcs' = Append(srcs, Untouched))]_vars

\* the images embedded so far, in document order
C26_EmbeddedSoFar == SelectSeq(srcs, LAMBDA x : x.local)

\* C26: within one html_to_epub call the k-th image embedded (k = 0, 1, ...)
\* has the index k in its name and uid, no two embedded images have the same
\* index, and an image that was not embedded (fetch failed, src not http)
\* uses up no index: the counter is the number of images embedded.
C26_NamesNumberedInOrder ==
    client = "img" =>
        /\ \A k \in 1..Len(C26_EmbeddedSoFar) : C26_EmbeddedSoFar[k].n = k - 1
        /\ \A i, j \in 1..Len(C26_EmbeddedSoFar) :
              i # j => C26_EmbeddedSoFar[i].n # C26_EmbeddedSoFar[j].n
        /\ img_counter = Len(C26_EmbeddedSoFar)

\* two images embedded, as img_0 and img_1
C26_Witness ==
    /\ client = "img" /\ epub = "written"
    /\ srcs = <<Embedded(0), Embedded(1)>>

(* ================ properties of the end of a run ======================== *)
\* C27: on every path out of sync() (nothing listed, nothing new, all
\* documents handled, listing failure, keyboard interrupt)
\* _cleanup_temp_files runs exactly once, as the last step of the run and so
\* after the last document, and an exception inside it neither leaves
\* sync() nor changes how the run ends.
C27_CleanupOnEveryPath ==
    /\ []((runs >= 1 /\ spc # "off") => cleanups = 0)
    /\ []((runs >= 1 /\ spc = "off" /\ runOutcome # "crashed")
            => (cleanups = 1 /\ runOutcome \in {"returned", "raised", "interrupted"}))
    /\ [][(spc \in InSync /\ spc' \notin InSync /\ runOutcome' # "crashed")
            => spc' = "cleanup"]_vars
    /\ [][(spc = "cleanup" /\ runOutcome' # "crashed")
            => (spc' = "off" /\ runOutcome' = runOutcome)]_vars

\* the listing failed, the cleanup ran once and caught an exception of its
\* own, and the run ended with the listing's exception
C27_Witness ==
    /\ spc = "off" /\ runs = 1
    /\ runOutcome = "raised" /\ cleanups = 1 /\ cleanupErr

(* ================ properties of the paced clients, continued ============ *)
\* C28: one ReadwiseAPI instance starts at most 20 requests in any 60
\* seconds: the minute that begins with its first request holds at most 20,
\* and everywhere twenty times the distance of two consecutive request
\* starts is more than a minute, so that no 21 consecutive requests, and so
\* no 21 requests at all, fit into one.
C28_TwentyPerMinute ==
    client = "api" =>
        /\ win.count <= 20
        /\ starts[1] >= 0 => 20 * (starts[2] - starts[1]) > 600

\* twenty requests started within the minute
C28_Witness ==
    /\ client = "api" /\ win.on /\ win.count = 20
    /\ now <= win.start + 600

\* the sleeps after the failed attempts 0, 1, ... that are not the last, in
\* tenths of a second: 2, 4, 8, 16 s and 2, 4 s
C29_Schedule(c) == IF c = "api" THEN <<20, 40, 80, 160>> ELSE <<20, 40>>

\* an attempt ends with a transport error
C29_AttemptFails == pc = "request" /\ nerr' = nerr + 1

\* C29: after a transport error on the attempt with index a that is not the
\* last the client sleeps exactly base_delay * 2^a seconds and then retries
\* (2, 4, 8, 16 s for the API client, 2, 4 s for the image fetcher); after
\* a transport error on the last attempt it fails at once, without sleeping.
C29_BackoffSchedule ==
    [][C29_AttemptFails =>
        IF attempt + 1 <= Len(C29_Schedule(client))
        THEN /\ slept' = C29_Schedule(client)[attempt + 1]
             /\ now' = t_resp' + slept'
             /\ attempt' = attempt + 1
             /\ pc' = "rate_limit"
        ELSE /\ slept' = 0
             /\ now' = t_resp'
             /\ pc' = "done"
             /\ result' = (IF client = "api" THEN "raise_last" ELSE "None")]_vars

\* the API client has slept 16 s after its fourth transport error in a row
C29_Witness ==
    /\ client = "api" /\ pc = "rate_limit"
    /\ attempt = 4 /\ nerr = 4 /\ n429 = 0
    /\ slept = 160 /\ now = t_resp + 160

\* inside a call: before a request or waiting for its answer
C30_InCall == pc \in {"rate_limit", "request"}

\* requests and answers the call can still see, at most
C30_Rank ==
    2 * ((IF client = "api" THEN 5 ELSE 3) - attempt)
        - (IF pc = "request" THEN 1 ELSE 0)

\* C30: whatever mix of successes, 429s (with or without Retry-After), 403s
\* and transport errors the requests meet, one _make_request call issues at
\* most 5 requests and one fetch_image call at most 3, and the call ends,
\* with a result or an exception: inside a call the attempts left are
\* positive, and every step of the call ends it or leaves fewer requests
\* and answers to come.
C30_BoundedAttempts ==
    /\ [](nreq <= (IF client = "api" THEN 5 ELSE 3))
    /\ [](C30_InCall => C30_Rank > 0)
    /\ [](pc = "done" => result \in {"response", "bytes", "empty", "None",
                                      "raise_last", "raise_max", "ValueError"})
    /\ [][C30_InCall => (pc' = "done" \/ (C30_InCall' /\ C30_Rank' < C30_Rank))]_vars

\* a call of the API client that met 429s and transport errors on all five
\* attempts and ended with "Max retries exceeded"
C30_Witness ==
    /\ client = "api" /\ pc = "done" /\ nreq = 5
    /\ n429 >= 2 /\ nerr >= 2 /\ result = "raise_max"

\* the call is over and each of its requests was answered 429
C31_All429 == pc = "done" /\ nreq > 0 /\ n429 = nreq

\* C31 as stated: when every attempt of a call is answered 429 the caller
\* never gets a 429 response: the call has made max_retries requests (5 for
\* the API client, 3 for the image fetcher), and _make_request raises "Max
\* retries exceeded" while fetch_image returns None.
C31_All429NeverReturned ==
    C31_All429 =>
        /\ result \notin {"response", "bytes", "empty"}
        /\ nreq = (IF client = "api" THEN 5 ELSE 3)
        /\ result = (IF client = "api" THEN "raise_max" ELSE "None")

(* ================ properties of a failed ledger append ================== *)
\* the append of mark_exported has just failed
C33_AppendFails ==
    spc = "mark_append" /\ docStatus' \in {"append_failed", "append_failed_pdf"}

\* the run goes on: with the next document, or past the last one
C33_RunContinues ==
    /\ idx' = idx + 1
    /\ IF idx < Len(new_documents)
       THEN spc' = "doc"
       ELSE spc' = "cleanup" /\ runOutcome' = "returned"

\* C33 as stated: when the append inside mark_exported fails the in-memory
\* set is left as it was, the exception is caught by the per-document
\* handler of sync(), and the run continues with the next document.
C33_Original ==
    [][C33_AppendFails =>
        /\ exported_docs' = exported_docs
        /\ docStatus' = "append_failed"
        /\ C33_RunContinues]_vars

\* C33 amended: when the append inside mark_exported fails the in-memory
\* set is left as it was, the exception is caught, by the per-document
\* handler of sync() for an article and by the except clause of the pdf
\* branch of _process_document for a pdf, and the run continues with the
\* next document.
C33_AppendFailureCaught ==
    [][C33_AppendFails =>
        /\ exported_docs' = exported_docs
        /\ docStatus' = (IF category = "pdf" THEN "append_failed_pdf"
                         ELSE "append_failed")
        /\ C33_RunContinues]_vars

\* the append failed for the first of two new documents, an article that
\* had been uploaded; the set is empty and the second document is next
C33_Witness ==
    /\ spc = "doc" /\ idx = 2 /\ Len(new_documents) = 2
    /\ docStatus = "append_failed"
    /\ runUploads[new_documents[1].id] > 0
    /\ new_documents[1].id \notin exported_docs

(* ================ properties of the order of a run ====================== *)
\* a listing request is sent to the Readwise API
C32_ApiRequest == lastReq' # lastReq /\ lastReq'.location > 0

\* C32: within one run the listing is over, for all locations and all their
\* pages, before any document is converted or uploaded: requests to the
\* Readwise API are sent only while get_documents runs and no document has
\* been handed to _process_document, get_documents returns only past the
\* last location, and a document is processed only after it has returned;
\* so the requests of the image fetcher, sent during the conversions, all
\* come after the last API request of the run.
C32_ListingBeforeProcessing ==
    /\ [][C32_ApiRequest => (spc = "list" /\ processed = <<>> /\ touched = {})]_vars
    /\ [][(listing = "none" /\ listing' = "ok") => location > Len(Locations)]_vars
    /\ []((spc \in Processing \/ processed # <<>> \/ touched # {})
            => (runs >= 1 /\ listing = "ok" /\ lastReq = NoRequest))

\* the second document of a run has been converted, after the first was
\* uploaded: the listing is long over
C32_Witness ==
    /\ spc = "upload" /\ idx = 2 /\ docStatus = "converted"
    /\ listing = "ok" /\ Len(processed) = 2
    /\ runUploads[new_documents[1].id] > 0

====
